---- MODULE Spec2Model ----
(***************************************************************************)
(* SQLite2MySQL: the migration engine of src/migrate.py (the command line  *)
(* entry point, class Migrator) and of src/backend/main.py (the HTTP       *)
(* entry point, run_migration_task).                                       *)
(*                                                                         *)
(* entry = "cli" is Migrator.run, entry = "api" is run_migration_task.     *)
(* A source table is a set of rows [rowid, vals]; vals is positional and   *)
(* follows schema[t], the table's column names in declaration order.       *)
(***************************************************************************)
EXTENDS Integers, Sequences, FiniteSets, TLC

VARIABLES
    entry,            \* "cli" (migrate.py) or "api" (backend/main.py)
    options,          \* [resolve_duplicates, duplicate_strategy, include_data]
    tables,           \* get_tables(): the table names, in listing order
    schema,           \* table -> sequence of column names (PRAGMA table_info)
    indexes,          \* table -> sequence of [name, unique, columns]
    src,              \* table -> set of rows of the SQLite file
    src_disk,         \* table -> rows committed to the SQLite file
    src0,             \* table -> rows when resolution of that table started
    pc,               \* position of the run
    tblPos,           \* 1-based position in tables of the loop at pc
    rpc,              \* position inside DuplicateResolver.resolve
    unique_indexes,   \* the constraint groups resolve() checks for the table
    idxPos,           \* position in unique_indexes
    dupes,            \* find_duplicates() rows not yet handled
    resolutions,      \* resolve()'s local list `resolutions`
    logs,             \* status["logs"] of the api run
    status,           \* report["status"] (cli), status["status"] (api)
    report_tables,    \* report["tables"]: table -> [status, validation]
    report_resolutions, \* report["duplicate_resolutions"]
    errors,           \* report["errors"]
    reported,         \* generate_report() has written the report
    progress,         \* status["progress"] of the api run
    mysql_conn,       \* "none", "open", "lost" (server gone) or "closed"
    tgt,              \* table -> [exists, rows, indexes]: what the server holds committed
    txn,              \* table -> rows inserted by the open target transaction
    fetched,          \* `rows` of the data step: fetchall() of SELECT *
    batchPos,         \* `i` of the batch loop, 0-based
    raised,           \* the exception raised in this run: [phase, table, kind] or NoError
    runNo,            \* the run of the same source and options this is
    firstCounts,      \* table -> target row count at the end of the first run
    validation_errors, \* the api run's local list validation_errors
    tampered,         \* a row was inserted by hand on the source after the transfer
    ddl_columns,      \* get_table_schema() of the table whose DDL is synthesized
    ddl_out,          \* the column clauses of the synthesized CREATE TABLE
    type_in,          \* the sqlite_type TypeMapper.map_type is called with
    migration_status, \* main.py's dict migration_status: migration_id -> entry
    task,             \* the background tasks started: [migration_id, pc]
    response,         \* the last answer of GET /status/{id}: [id, body]
    writer,           \* the migration_id of the request or task that took the last step
    caught,           \* the errors an `except` inside the run caught and went on from
    type_out          \* the values the calls of map_type(type_in) returned

inputVars == <<entry, options, tables, schema, indexes>>
srcVars   == <<src, src_disk, src0>>
resVars   == <<rpc, unique_indexes, idxPos, dupes, resolutions>>
repVars   == <<report_tables, report_resolutions, errors, reported>>
apiVars   == <<progress, logs, validation_errors>>
histVars  == <<raised, runNo, firstCounts, tampered>>
runVars   == <<pc, tblPos, status, repVars, apiVars, histVars>>
tgtVars   == <<mysql_conn, tgt, txn, fetched, batchPos>>
ddlVars   == <<ddl_columns, ddl_out>>
typeVars  == <<type_in, type_out>>
\* the variables of the parts that are also run on their own
mapVars   == <<migration_status, task, response, writer>>
partVars  == <<ddlVars, typeVars, mapVars>>

vars == <<inputVars, srcVars, resVars, runVars, tgtVars, partVars, caught>>

-----------------------------------------------------------------------------
(* Bounds of the model *)

\* most rows a modelled source table starts with
MaxRows == 3

-----------------------------------------------------------------------------
(* Values *)

\* Python None / SQL NULL
NULL == "NULL"

\* the non-NULL column values, in SQLite's ascending (memcmp) order
ValOrder == <<"admin", "user1">>

Vals == {NULL} \cup {ValOrder[i] : i \in 1..Len(ValOrder)}

\* str.format of a value inside an f-string: None prints as "None"
PyStr(v) == IF v = NULL THEN "None" ELSE v

Range(s) == {s[i] : i \in 1..Len(s)}

Min(S) == CHOOSE x \in S : \A y \in S : x <= y

\* position of a value in SQLite's sort order: NULL first, then text
Rank(v) ==
    IF v = NULL THEN 0
    ELSE IF v \in Range(ValOrder)
         THEN CHOOSE i \in 1..Len(ValOrder) : ValOrder[i] = v
         ELSE Len(ValOrder) + 1

\* lexicographic order of GROUP BY keys
KeyLess(a, b) ==
    \E i \in 1..Len(a) :
        /\ \A j \in 1..(i - 1) : a[j] = b[j]
        /\ Rank(a[i]) < Rank(b[i])

RECURSIVE SortKeys(_)
SortKeys(S) ==
    IF S = {} THEN <<>>
    ELSE LET m == CHOOSE x \in S : \A y \in S \ {x} : ~KeyLess(y, x)
         IN  <<m>> \o SortKeys(S \ {m})

\* the rowids of a set of rows in ascending order
RECURSIVE SortIds(_)
SortIds(S) ==
    IF S = {} THEN <<>>
    ELSE LET m == Min(S) IN <<m>> \o SortIds(S \ {m})

-----------------------------------------------------------------------------
(* DatabaseAnalyzer *)

HasColumn(t, c) == c \in Range(schema[t])

ColIndex(t, c) == CHOOSE i \in 1..Len(schema[t]) : schema[t][i] = c

\* the values of columns cols in row r
Proj(r, t, cols) == [i \in 1..Len(cols) |-> r.vals[ColIndex(t, cols[i])]]

-----------------------------------------------------------------------------
(* TypeMapper.  A type string is the sequence of its characters. *)

LowerCase == <<"a", "b", "c", "d", "e", "f", "g", "h", "i", "j", "k", "l", "m", "n", "o", "p", "q", "r", "s", "t", "u", "v", "w", "x", "y", "z">>

UpperCase == <<"A", "B", "C", "D", "E", "F", "G", "H", "I", "J", "K", "L", "M", "N", "O", "P", "Q", "R", "S", "T", "U", "V", "W", "X", "Y", "Z">>

\* str.upper() of one character
UpperChar(c) ==
    IF \E i \in 1..Len(LowerCase) : LowerCase[i] = c
    THEN UpperCase[CHOOSE i \in 1..Len(LowerCase) : LowerCase[i] = c]
    ELSE c

\* str.upper()
Upper(str) == [i \in 1..Len(str) |-> UpperChar(str[i])]

\* `key in str`: key is a substring of str
Contains(key, str) ==
    \E i \in 0..(Len(str) - Len(key)) : SubSeq(str, i + 1, i + Len(key)) = key

\* TypeMapper.MAPPING: the (key, value) pairs in the order of the dict
MAPPING ==
    << <<<<"I", "N", "T", "E", "G", "E", "R">>,
         <<"I", "N", "T">>>>,
       <<<<"I", "N", "T">>,
         <<"I", "N", "T">>>>,
       <<<<"T", "I", "N", "Y", "I", "N", "T">>,
         <<"T", "I", "N", "Y", "I", "N", "T">>>>,
       <<<<"S", "M", "A", "L", "L", "I", "N", "T">>,
         <<"S", "M", "A", "L", "L", "I", "N", "T">>>>,
       <<<<"M", "E", "D", "I", "U", "M", "I", "N", "T">>,
         <<"M", "E", "D", "I", "U", "M", "I", "N", "T">>>>,
       <<<<"B", "I", "G", "I", "N", "T">>,
         <<"B", "I", "G", "I", "N", "T">>>>,
       <<<<"U", "N", "S", "I", "G", "N", "E", "D", " ", "B", "I", "G", " ", "I", "N", "T">>,
         <<"B", "I", "G", "I", "N", "T", " ", "U", "N", "S", "I", "G", "N", "E", "D">>>>,
       <<<<"I", "N", "T", "2">>,
         <<"S", "M", "A", "L", "L", "I", "N", "T">>>>,
       <<<<"I", "N", "T", "8">>,
         <<"B", "I", "G", "I", "N", "T">>>>,
       <<<<"T", "E", "X", "T">>,
         <<"L", "O", "N", "G", "T", "E", "X", "T">>>>,
       <<<<"C", "L", "O", "B">>,
         <<"L", "O", "N", "G", "T", "E", "X", "T">>>>,
       <<<<"B", "L", "O", "B">>,
         <<"L", "O", "N", "G", "B", "L", "O", "B">>>>,
       <<<<"R", "E", "A", "L">>,
         <<"D", "O", "U", "B", "L", "E">>>>,
       <<<<"D", "O", "U", "B", "L", "E">>,
         <<"D", "O", "U", "B", "L", "E">>>>,
       <<<<"D", "O", "U", "B", "L", "E", " ", "P", "R", "E", "C", "I", "S", "I", "O", "N">>,
         <<"D", "O", "U", "B", "L", "E">>>>,
       <<<<"F", "L", "O", "A", "T">>,
         <<"F", "L", "O", "A", "T">>>>,
       <<<<"N", "U", "M", "E", "R", "I", "C">>,
         <<"D", "E", "C", "I", "M", "A", "L", "(", "1", "0", ",", "5", ")">>>>,
       <<<<"B", "O", "O", "L", "E", "A", "N">>,
         <<"B", "O", "O", "L", "E", "A", "N">>>>,
       <<<<"D", "A", "T", "E", "T", "I", "M", "E">>,
         <<"D", "A", "T", "E", "T", "I", "M", "E">>>>,
       <<<<"D", "A", "T", "E">>,
         <<"D", "A", "T", "E">>>>,
       <<<<"V", "A", "R", "C", "H", "A", "R">>,
         <<"V", "A", "R", "C", "H", "A", "R">>>>,
       <<<<"N", "V", "A", "R", "C", "H", "A", "R">>,
         <<"V", "A", "R", "C", "H", "A", "R">>>>,
       <<<<"C", "H", "A", "R", "A", "C", "T", "E", "R">>,
         <<"C", "H", "A", "R">>>> >>

\* the value of the last rule of the table that matches, for comparison
LastRule(upper_type, i) ==
    LET hits == {j \in i..Len(MAPPING) : Contains(MAPPING[j][1], upper_type)}
    IN  IF hits = {} THEN <<"L", "O", "N", "G", "T", "E", "X", "T">>
        ELSE MAPPING[CHOOSE j \in hits : \A k \in hits : k <= j][2]

\* `for key, value in MAPPING.items(): if key in sqlite_type: return value`,
\* then the fallback
RECURSIVE FirstRule(_, _)
FirstRule(upper_type, i) ==
    IF i > Len(MAPPING) THEN <<"L", "O", "N", "G", "T", "E", "X", "T">>
    ELSE IF Contains(MAPPING[i][1], upper_type) THEN MAPPING[i][2]
    ELSE FirstRule(upper_type, i + 1)

\* TypeMapper.map_type (the same in both entry points)
map_type(sqlite_type) ==
    LET upper_type == Upper(sqlite_type)
    IN  IF Contains(<<"V", "A", "R", "C", "H", "A", "R">>, upper_type)
        THEN IF ~Contains(<<"(">>, upper_type) THEN <<"V", "A", "R", "C", "H", "A", "R", "(", "2", "5", "5", ")">>
             ELSE upper_type
        ELSE FirstRule(upper_type, 1)

-----------------------------------------------------------------------------
(* DuplicateResolver *)

\* the dict common_grafana_unique: table -> its supplementary column groups
common_grafana_unique(t) ==
    CASE t = "user"        -> << <<"login">>, <<"email">> >>
      [] t = "dashboard"   -> << <<"uid">>, <<"slug", "org_id">> >>
      [] t = "org"         -> << <<"name">> >>
      [] t = "data_source" -> << <<"uid", "org_id">>, <<"name", "org_id">> >>
      [] t = "team"        -> << <<"name", "org_id">> >>
      [] t = "folder"      -> << <<"uid">>, <<"title", "org_id">> >>
      [] OTHER             -> << >>

RECURSIVE JoinUnderscore(_)
JoinUnderscore(cols) ==
    IF Len(cols) = 0 THEN ""
    ELSE IF Len(cols) = 1 THEN cols[1]
    ELSE cols[1] \o "_" \o JoinUnderscore(Tail(cols))

\* one pass of the loop `for check_cols in common_grafana_unique[table_name]`
\* of resolve(): acc is unique_indexes so far
RECURSIVE AddPseudoIndexes(_, _, _)
AddPseudoIndexes(t, checks, acc) ==
    IF checks = <<>> THEN acc
    ELSE LET check_cols == Head(checks)
             valid_cols == SelectSeq(check_cols, LAMBDA c : HasColumn(t, c))
             covered    == \E i \in 1..Len(acc) :
                              Range(acc[i].columns) = Range(valid_cols)
             pseudo     == [name    |-> "pseudo_idx_" \o JoinUnderscore(valid_cols),
                            columns |-> valid_cols,
                            unique  |-> 1]
         IN  AddPseudoIndexes(t, Tail(checks),
                 IF Len(valid_cols) = Len(check_cols) /\ ~covered
                 THEN Append(acc, pseudo) ELSE acc)

\* resolve(), up to `resolutions = []`: the groups checked for table t
CliConstraintGroups(t) ==
    AddPseudoIndexes(t, common_grafana_unique(t),
                     SelectSeq(indexes[t], LAMBDA idx : idx.unique # 0))

\* run_migration_task: the supplementary groups whose columns all exist;
\* the table's indexes are not read
RECURSIVE ApiValidGroups(_, _)
ApiValidGroups(t, checks) ==
    IF checks = <<>> THEN <<>>
    ELSE LET check_cols == Head(checks)
             valid_cols == SelectSeq(check_cols, LAMBDA c : HasColumn(t, c))
             rest       == ApiValidGroups(t, Tail(checks))
         IN  IF Len(valid_cols) = Len(check_cols)
             THEN <<[name |-> "", columns |-> valid_cols, unique |-> 1]>> \o rest
             ELSE rest

ApiConstraintGroups(t) == ApiValidGroups(t, common_grafana_unique(t))

\* SELECT cols, COUNT(*) ... GROUP BY cols HAVING COUNT(*) > 1
GroupCount(rows, t, cols, key) ==
    Cardinality({r \in rows : Proj(r, t, cols) = key})

\* HavingCount with the comparison off by one (HAVING COUNT(*) >= 1)
HavingCountFromOne(n) == n >= 1

HavingCount(n) == n > 1

\* find_duplicates(): the violating value combinations with their counts, in
\* GROUP BY order; [] for no columns and when the query raises
\* sqlite3.OperationalError (a column that the table does not have)
find_duplicates(rows, t, cols) ==
    IF cols = <<>> THEN <<>>
    ELSE IF \E i \in 1..Len(cols) : ~HasColumn(t, cols[i]) THEN <<>>
    ELSE LET keys   == {Proj(r, t, cols) : r \in rows}
             dup    == {k \in keys : HavingCount(GroupCount(rows, t, cols, k))}
             sorted == SortKeys(dup)
         IN  [i \in 1..Len(sorted) |->
                 [key |-> sorted[i], count |-> GroupCount(rows, t, cols, sorted[i])]]

\* cols_vals: "`c` = ?" for a non-NULL value of the combination, "`c` IS NULL"
\* for a NULL one; an equality test never matches a NULL column
ColsValsMatch(r, t, cols, key) ==
    \A i \in 1..Len(cols) :
        LET v == r.vals[ColIndex(t, cols[i])]
        IN  IF key[i] # NULL THEN v # NULL /\ v = key[i] ELSE v = NULL

\* vals = [v for v in dupe[:-1] if v is not None]
BoundVals(key) == SelectSeq(key, LAMBDA v : v # NULL)

\* KeepId with the order reversed (ORDER BY rowid DESC)
KeepIdHighest(matching) ==
    CHOOSE x \in {r.rowid : r \in matching} : \A r \in matching : r.rowid <= x

\* SELECT rowid ... WHERE cols_vals ORDER BY rowid ASC LIMIT 1
KeepId(matching) == Min({r.rowid : r \in matching})

\* strategy "remove": DELETE ... WHERE cols_vals AND rowid != keep_id
RemoveOthers(rows, matching, keep_id) ==
    rows \ {r \in matching : r.rowid # keep_id}

\* the number of "?" in `cols_vals AND rowid != ?` and the number of values
\* the rename SELECT passes (vals alone, keep_id is not passed)
RenamePlaceholders(key) == Len(BoundVals(key)) + 1
RenameBindings(key) == Len(BoundVals(key))

\* the loop `for i, rid in enumerate(ids_to_fix, 1)`: returns [rows, log]
RECURSIVE RenameLoop(_, _, _, _, _, _)
RenameLoop(rows, t, col_to_rename, ids_to_fix, i, log) ==
    IF ids_to_fix = <<>> THEN [rows |-> rows, log |-> log]
    ELSE LET rid      == Head(ids_to_fix)
             row      == CHOOSE r \in rows : r.rowid = rid
             p        == ColIndex(t, col_to_rename)
             orig_val == row.vals[p]
             new_val  == PyStr(orig_val) \o "_dup_" \o ToString(i)
             newRow   == [row EXCEPT !.vals[p] = new_val]
         IN  RenameLoop((rows \ {row}) \cup {newRow}, t, col_to_rename,
                        Tail(ids_to_fix), i + 1,
                        Append(log, [kind |-> "renamed", table |-> t,
                                     orig |-> PyStr(orig_val), new |-> new_val]))

-----------------------------------------------------------------------------
(* DuplicateResolver.resolve, and the resolution loop of run_migration_task *)

\* the table the loop at pc is at
table == tables[tblPos]

\* options.get("duplicate_strategy", "remove") / options.duplicate_strategy
strategy == options.duplicate_strategy

\* the rows matching the combination at the head of dupes
Matching ==
    {r \in src[table] :
        ColsValsMatch(r, table, unique_indexes[idxPos].columns, Head(dupes).key)}

\* resolve() lines 143-167; run_migration_task lines 124-131.  The table's
\* groups are computed and the local log is emptied.
ResolveBegin ==
    /\ pc \in {"standalone", "resolve"}
    /\ rpc = "idle"
    /\ tblPos <= Len(tables)
    /\ unique_indexes' = IF entry = "cli" THEN CliConstraintGroups(table)
                         ELSE ApiConstraintGroups(table)
    /\ idxPos' = 1
    /\ dupes' = <<>>
    /\ resolutions' = <<>>
    /\ src0' = [src0 EXCEPT ![table] = src[table]]
    /\ rpc' = "find"
    /\ UNCHANGED <<inputVars, caught, src, src_disk, runVars, tgtVars, partVars>>

\* `for idx in unique_indexes: dupes = self.find_duplicates(...)`
FindDuplicates ==
    /\ pc \in {"standalone", "resolve"}
    /\ rpc = "find"
    /\ idxPos <= Len(unique_indexes)
    /\ LET found == find_duplicates(src[table], table, unique_indexes[idxPos].columns)
       IN  /\ dupes' = found
           /\ IF found = <<>>
              THEN idxPos' = idxPos + 1 /\ rpc' = "find"
              ELSE idxPos' = idxPos /\ rpc' = "dupe"
    /\ UNCHANGED <<inputVars, caught, srcVars, unique_indexes, resolutions, runVars,
                   tgtVars, partVars>>

\* what one pass of `for dupe in dupes` writes: [rows, log]
\* cli (lines 175-206): the keeper lookup, then DELETE, or the rename SELECT,
\* which raises for its missing binding and is caught by `except Exception`.
\* api (lines 137-145): the keeper lookup, then DELETE for "remove" only.
CliDupeOutcome(rows, t, cols, key) ==
    LET matching == {r \in rows : ColsValsMatch(r, t, cols, key)}
        keep_id  == KeepId(matching)
        after    == RemoveOthers(rows, matching, keep_id)
        ren      == RenameLoop(rows, t, cols[1],
                               SortIds({r.rowid : r \in matching} \ {keep_id}),
                               1, <<>>)
    IN  IF matching = {} THEN [rows |-> rows, log |-> <<>>]
        ELSE IF strategy = "remove"
        THEN [rows  |-> after,
              log   |-> <<[kind |-> "removed", table |-> t,
                           count |-> Cardinality(rows \ after),
                           vals |-> BoundVals(key)]>>]
        ELSE IF strategy = "rename"
        THEN IF RenamePlaceholders(key) # RenameBindings(key)
             THEN [rows |-> rows, log |-> <<>>]
             ELSE [rows |-> ren.rows, log |-> ren.log]
        ELSE [rows |-> rows, log |-> <<>>]

\* the pass of `for dupe in dupes` raises by itself: the rename SELECT of
\* line 194 has one placeholder more than bindings
CliDupeRaises(key) ==
    strategy = "rename" /\ RenamePlaceholders(key) # RenameBindings(key)

ApiDupeOutcome(rows, t, cols, key) ==
    LET matching == {r \in rows : ColsValsMatch(r, t, cols, key)}
        keep_id  == KeepId(matching)
        after    == RemoveOthers(rows, matching, keep_id)
    IN  IF strategy = "remove"
        THEN [rows  |-> after,
              log   |-> <<[kind |-> "removed", table |-> t,
                           count |-> Cardinality(rows \ after)]>>]
        ELSE [rows |-> rows, log |-> <<>>]

\* the body of `for dupe in dupes`
ResolveDupe ==
    /\ pc \in {"standalone", "resolve"}
    /\ rpc = "dupe"
    /\ dupes # <<>>
    /\ LET cols == unique_indexes[idxPos].columns
           out  == IF entry = "cli"
                   THEN CliDupeOutcome(src[table], table, cols, Head(dupes).key)
                   ELSE ApiDupeOutcome(src[table], table, cols, Head(dupes).key)
       IN  /\ src' = [src EXCEPT ![table] = out.rows]
           /\ IF entry = "cli"
              THEN resolutions' = resolutions \o out.log /\ logs' = logs
              ELSE logs' = logs \o out.log /\ resolutions' = resolutions
    /\ caught' = IF entry = "cli" /\ CliDupeRaises(Head(dupes).key)
                 THEN Append(caught, [phase |-> "dupe", table |-> table,
                                      kind |-> "binding"])
                 ELSE caught
    /\ dupes' = Tail(dupes)
    /\ IF Tail(dupes) = <<>>
       THEN idxPos' = idxPos + 1 /\ rpc' = "find"
       ELSE idxPos' = idxPos /\ rpc' = "dupe"
    /\ UNCHANGED <<inputVars, src0, src_disk, unique_indexes, partVars, tgtVars,
                   pc, tblPos, status, repVars, progress, validation_errors,
                   histVars>>

\* the commit left out: the file keeps what it held
SqliteCommitSkipped(disk, cur) == disk

\* conn.commit() on the SQLite connection: the file holds what the
\* connection wrote
SqliteCommit(disk, cur) == cur

\* resolve() lines 208-211: commit when something was resolved, and return.
\* The api loop has no per-table commit: it goes on to the next table.
ResolveEnd ==
    /\ pc \in {"standalone", "resolve"}
    /\ rpc = "find"
    /\ idxPos > Len(unique_indexes)
    /\ src_disk' = IF entry = "cli" /\ resolutions # <<>>
                   THEN SqliteCommit(src_disk, src) ELSE src_disk
    /\ rpc' = "returned"
    /\ UNCHANGED <<inputVars, caught, src, src0, unique_indexes, idxPos, dupes,
                   resolutions, runVars, tgtVars, partVars>>

-----------------------------------------------------------------------------
(* The resolver on one table: verify_logic.py calls resolve() this way *)

NoError == [phase |-> "none", table |-> "", kind |-> ""]

NoTable == [exists |-> FALSE, rows |-> <<>>, indexes |-> {}]

NoEntry == [status |-> "none", validation |-> "none"]

\* the `user` rows of test_setup.py (login, email): ids 1 and 3 share a
\* login, the three emails differ
ExampleRowsOfUser ==
    { [rowid |-> 1, vals |-> <<"admin", "admin">>],
      [rowid |-> 2, vals |-> <<"user1", "user1">>],
      [rowid |-> 3, vals |-> <<"admin", NULL>>] }

\* the tables resolution is run on: name, columns, indexes
ResolveInputs ==
    { [table |-> "user", schema |-> <<"login", "email">>, indexes |-> <<>>],
      [table |-> "user", schema |-> <<"login", "email">>,
       indexes |-> <<[name |-> "idx_user_login", unique |-> 1,
                      columns |-> <<"login">>]>>],
      [table |-> "user", schema |-> <<"login", "name">>, indexes |-> <<>>],
      [table |-> "team", schema |-> <<"name", "org_id">>, indexes |-> <<>>],
      [table |-> "team", schema |-> <<"name", "org_id">>,
       indexes |-> <<[name |-> "idx_team", unique |-> 1,
                      columns |-> <<"org_id", "name">>]>>],
      [table |-> "alert", schema |-> <<"name", "org_id">>,
       indexes |-> <<[name |-> "idx_alert_name", unique |-> 0,
                      columns |-> <<"name">>],
                     [name |-> "idx_alert", unique |-> 1,
                      columns |-> <<"name", "org_id">>]>>] }

\* SQLite lets a UNIQUE index hold a combination twice only when one of its
\* values is NULL
SatisfiesUnique(rows, cols, idxs) ==
    \A i \in 1..Len(idxs) :
        idxs[i].unique # 0 =>
            \A r1, r2 \in rows :
                LET pos(c) == CHOOSE k \in 1..Len(cols) : cols[k] = c
                    key(r) == [k \in 1..Len(idxs[i].columns) |->
                                  r.vals[pos(idxs[i].columns[k])]]
                IN  (r1 # r2 /\ key(r1) = key(r2)) => NULL \in Range(key(r1))

\* the run-level variables of a run that has not begun
RunIdle ==
    /\ status = (IF entry = "cli" THEN "started" ELSE "pending")
    /\ report_tables = [t \in Range(tables) |-> NoEntry]
    /\ report_resolutions = <<>>
    /\ errors = <<>>
    /\ reported = FALSE
    /\ progress = 0
    /\ logs = <<>>
    /\ raised = NoError
    /\ runNo = 1
    /\ firstCounts = [t \in Range(tables) |-> 0]
    /\ tampered = FALSE
    /\ validation_errors = <<>>
    /\ mysql_conn = "none"
    /\ tgt = [t \in Range(tables) |-> NoTable]
    /\ txn = [t \in Range(tables) |-> <<>>]
    /\ fetched = <<>>
    /\ batchPos = 0
    /\ rpc = "idle"
    /\ unique_indexes = <<>>
    /\ idxPos = 1
    /\ dupes = <<>>
    /\ resolutions = <<>>
    /\ tblPos = 1
    /\ caught = <<>>

NoDdl == [columns |-> <<>>, pk_cols |-> <<>>, done |-> FALSE]

DdlIdle ==
    /\ ddl_columns = <<>>
    /\ ddl_out = NoDdl

TypeIdle ==
    /\ type_in = <<>>
    /\ type_out = <<>>

\* most background tasks started
MaxTasks == 2

\* the migration ids uuid4() draws from
RunIds == 1..(MaxTasks + 1)

\* `{"status": "not_found"}`, the default of migration_status.get
NotFound == [status |-> "not_found"]

NoResponse == [id |-> 0, body |-> NotFound]

\* `migration_status = {}` (line 43), no request made
MapIdle ==
    /\ migration_status = [id \in RunIds |-> NotFound]
    /\ task = <<>>
    /\ response = NoResponse
    /\ writer = 0

PartsIdle == DdlIdle /\ TypeIdle /\ MapIdle

InitResolve ==
    /\ entry \in {"cli", "api"}
    /\ \E strat \in {"remove", "rename"} :
           options = [resolve_duplicates |-> TRUE, duplicate_strategy |-> strat,
                      include_data |-> TRUE]
    /\ \E inp \in ResolveInputs, n \in 0..MaxRows :
       \E f \in [1..n -> [1..Len(inp.schema) -> Vals]] :
           LET rows == {[rowid |-> i, vals |-> f[i]] : i \in 1..n}
           IN  /\ SatisfiesUnique(rows, inp.schema, inp.indexes)
               /\ tables = <<inp.table>>
               /\ schema = [t \in {inp.table} |-> inp.schema]
               /\ indexes = [t \in {inp.table} |-> inp.indexes]
               /\ src = [t \in {inp.table} |-> rows]
               /\ src0 = [t \in {inp.table} |-> rows]
               /\ src_disk = [t \in {inp.table} |-> rows]
    /\ pc = "standalone"
    /\ RunIdle
    /\ PartsIdle

NextResolve ==
    \/ ResolveBegin
    \/ FindDuplicates
    \/ ResolveDupe
    \/ ResolveEnd

SpecResolve == InitResolve /\ [][NextResolve]_vars

-----------------------------------------------------------------------------
(* The target server.  MySQL runs DROP TABLE, CREATE TABLE and CREATE INDEX *)
(* outside any transaction: each commits the open transaction of its        *)
(* connection before it runs.  Rows inserted with autocommit off stay in    *)
(* the transaction until commit(), a rollback(), or the loss of the         *)
(* connection, on which the server discards them.                           *)

\* most runs of the same source with the same options
MaxRuns == 2

\* batch_size of the data step; 1000 in the source, scaled to the modelled
\* tables so that a table is sent in several batches
batch_size == 2

EmptyTxn == [t \in Range(tables) |-> <<>>]

\* COMMIT: the rows of the transaction become the server's
Committed(tg, tx) == [t \in DOMAIN tg |-> [tg[t] EXCEPT !.rows = @ \o tx[t]]]

\* DROP TABLE IF EXISTS without the drop: the table and its rows stay
LeaveTable(tg, t) == tg

\* DROP TABLE IF EXISTS `t`
DropTableIfExists(tg, t) == [tg EXCEPT ![t] = NoTable]

\* CREATE TABLE IF NOT EXISTS `t`
CreateTableIfNotExists(tg, t) ==
    IF tg[t].exists THEN tg
    ELSE [tg EXCEPT ![t] = [exists |-> TRUE, rows |-> <<>>, indexes |-> {}]]

\* SELECT COUNT(*) FROM `t` on the run's own connection
TargetCount(t) == Len(tgt[t].rows) + Len(txn[t])

\* SELECT * FROM `t`: the rows in rowid order
RECURSIVE RowsInOrder(_)
RowsInOrder(rows) ==
    IF rows = {} THEN <<>>
    ELSE LET r == CHOOSE x \in rows : \A y \in rows : x.rowid <= y.rowid
         IN  <<r>> \o RowsInOrder(rows \ {r})

\* the slice taken one row late: rows[i + 1:i + batch_size]
BatchLate(rows, i) ==
    SubSeq(rows, i + 2, IF i + batch_size < Len(rows) THEN i + batch_size ELSE Len(rows))

\* rows[i:i + batch_size]
Batch(rows, i) ==
    SubSeq(rows, i + 1, IF i + batch_size < Len(rows) THEN i + batch_size ELSE Len(rows))

\* validate_counts with the sides compared by >=
CountsAtLeast(sqlite_count, mysql_count) == sqlite_count >= mysql_count

\* Validator.validate_counts; `sqlite_count != mysql_count` of the api run
CountsEqual(sqlite_count, mysql_count) == sqlite_count = mysql_count

\* the status an except block writes, misspelt
ExceptStatusOther == "error"

\* self.report["status"] = "failed"; status["status"] = "failed"
ExceptStatus == "failed"

-----------------------------------------------------------------------------
(* Migrator.run and run_migration_task, statement by statement *)

LastTable == tblPos = Len(tables)

\* run_migration_task lines 86-87
ApiStart ==
    /\ entry = "api" /\ pc = "start"
    /\ status' = "migrating"
    /\ pc' = "connect"
    /\ UNCHANGED <<inputVars, caught, srcVars, resVars, tgtVars, partVars, tblPos,
                   repVars, apiVars, histVars>>

\* connect_mysql(); mysql.connector.connect() and autocommit = False
Connect ==
    /\ pc = "connect"
    /\ mysql_conn' = "open"
    /\ pc' = "list"
    /\ UNCHANGED <<inputVars, caught, srcVars, resVars, partVars, tblPos, status,
                   repVars, apiVars, histVars, tgt, txn, fetched, batchPos>>

\* get_tables(); then the test of resolve_duplicates
GetTables ==
    /\ pc = "list"
    /\ tblPos' = 1
    /\ IF options.resolve_duplicates
       THEN /\ pc' = "resolve"
            /\ logs' = IF entry = "api"
                       THEN Append(logs, [kind |-> "info", table |-> ""])
                       ELSE logs
       ELSE pc' = "drop" /\ logs' = logs
    /\ UNCHANGED <<inputVars, caught, srcVars, resVars, partVars, status, repVars,
                   progress, validation_errors, histVars, tgtVars>>

\* cli: report["duplicate_resolutions"].extend(resolutions), next table.
\* api: next table; after the last one sqlite_conn.commit() (line 147).
ResolveReturn ==
    /\ pc = "resolve" /\ rpc = "returned"
    /\ report_resolutions' = IF entry = "cli"
                             THEN report_resolutions \o resolutions
                             ELSE report_resolutions
    /\ rpc' = "idle"
    /\ IF LastTable
       THEN /\ pc' = "drop" /\ tblPos' = 1
            /\ src_disk' = IF entry = "api" THEN SqliteCommit(src_disk, src)
                           ELSE src_disk
       ELSE /\ pc' = "resolve" /\ tblPos' = tblPos + 1
            /\ src_disk' = src_disk
    /\ UNCHANGED <<inputVars, caught, src, src0, unique_indexes, idxPos, dupes,
                   resolutions, partVars, status, report_tables, errors, reported,
                   apiVars, histVars, tgtVars>>

\* cursor.execute(f"DROP TABLE IF EXISTS `{table}`")
DropTable ==
    /\ pc = "drop"
    /\ tgt' = DropTableIfExists(Committed(tgt, txn), table)
    /\ txn' = EmptyTxn
    /\ logs' = IF entry = "api"
               THEN Append(logs, [kind |-> "processing", table |-> table])
               ELSE logs
    /\ pc' = "create"
    /\ UNCHANGED <<inputVars, caught, srcVars, resVars, partVars, tblPos, status, repVars,
                   progress, validation_errors, histVars, mysql_conn, fetched,
                   batchPos>>

\* cursor.execute(create_query)
CreateTable ==
    /\ pc = "create"
    /\ tgt' = CreateTableIfNotExists(Committed(tgt, txn), table)
    /\ txn' = EmptyTxn
    /\ pc' = IF entry = "cli" THEN "index"
             ELSE IF options.include_data THEN "select" ELSE "record"
    /\ UNCHANGED <<inputVars, caught, srcVars, resVars, partVars, tblPos, status, repVars,
                   apiVars, histVars, mysql_conn, fetched, batchPos>>

\* create_mysql_schema lines 320-333: CREATE [UNIQUE] INDEX for the table's
\* indexes (none of the modelled indexes backs a primary key)
CreateIndexes ==
    /\ pc = "index"
    /\ tgt' = [Committed(tgt, txn) EXCEPT ![table].indexes =
                  {indexes[table][i].name : i \in 1..Len(indexes[table])}]
    /\ txn' = EmptyTxn
    /\ pc' = "select"
    /\ UNCHANGED <<inputVars, caught, srcVars, resVars, partVars, tblPos, status, repVars,
                   apiVars, histVars, mysql_conn, fetched, batchPos>>

\* SELECT * FROM `table`; rows = fetchall(); nothing to send when empty
SelectRows ==
    /\ pc = "select"
    /\ fetched' = RowsInOrder(src[table])
    /\ batchPos' = 0
    /\ pc' = IF src[table] = {} THEN "record" ELSE "batch"
    /\ UNCHANGED <<inputVars, caught, srcVars, resVars, partVars, tblPos, status, repVars,
                   apiVars, histVars, mysql_conn, tgt, txn>>

\* one pass of `for i in range(0, len(rows), batch_size)`: executemany
InsertBatch ==
    /\ pc = "batch"
    /\ txn' = [txn EXCEPT ![table] = @ \o Batch(fetched, batchPos)]
    /\ batchPos' = batchPos + batch_size
    /\ pc' = IF batchPos + batch_size < Len(fetched) THEN "batch" ELSE "record"
    /\ UNCHANGED <<inputVars, caught, srcVars, resVars, partVars, tblPos, status, repVars,
                   apiVars, histVars, mysql_conn, tgt, fetched>>

\* cli: report["tables"][table] = {"status": "success"}.
\* api: status["progress"] and the log line; mysql_conn.commit() follows the
\* loop (line 194).
RecordTable ==
    /\ pc = "record"
    /\ IF entry = "cli"
       THEN /\ report_tables' = [report_tables EXCEPT ![table] =
                                    [status |-> "success", validation |-> "none"]]
            /\ progress' = progress /\ logs' = logs
       ELSE /\ progress' = (tblPos * 100) \div Len(tables)
            /\ logs' = Append(logs, [kind |-> "migrated", table |-> table])
            /\ report_tables' = report_tables
    /\ IF LastTable
       THEN pc' = (IF entry = "cli" THEN "validate" ELSE "commit") /\ tblPos' = 1
       ELSE pc' = "drop" /\ tblPos' = tblPos + 1
    /\ UNCHANGED <<inputVars, caught, srcVars, resVars, partVars, status,
                   report_resolutions, errors, reported, validation_errors,
                   histVars, tgtVars>>

\* cli lines 391-397: validate_counts and the table's validation entry.
\* api lines 199-205: the counts and validation_errors.
Validate ==
    /\ pc = "validate"
    /\ LET sqlite_count == Cardinality(src[table])
           mysql_count  == TargetCount(table)
           count_ok     == CountsEqual(sqlite_count, mysql_count)
       IN  IF entry = "cli"
           THEN /\ report_tables' = [report_tables EXCEPT ![table].validation =
                                        IF count_ok THEN "ok" ELSE "count_mismatch"]
                /\ validation_errors' = validation_errors
           ELSE /\ validation_errors' =
                      IF count_ok THEN validation_errors
                      ELSE Append(validation_errors,
                                  [table |-> table, sqlite |-> sqlite_count,
                                   mysql |-> mysql_count])
                /\ report_tables' = report_tables
    /\ IF LastTable
       THEN pc' = (IF entry = "cli" THEN "commit" ELSE "finish") /\ tblPos' = 1
       ELSE pc' = "validate" /\ tblPos' = tblPos + 1
    /\ UNCHANGED <<inputVars, caught, srcVars, resVars, partVars, status,
                   report_resolutions, errors, reported, progress, logs,
                   histVars, tgtVars>>

\* mysql_conn.commit().  cli (after run_grafana_tests, whose failures are
\* swallowed): status "completed", then `finally`: generate_report().
\* api: validation follows.
Commit ==
    /\ pc = "commit"
    /\ tgt' = Committed(tgt, txn)
    /\ txn' = EmptyTxn
    /\ IF entry = "cli"
       THEN status' = "completed" /\ reported' = TRUE /\ pc' = "done"
       ELSE status' = status /\ reported' = reported /\ pc' = "validate"
    /\ UNCHANGED <<inputVars, caught, srcVars, resVars, partVars, tblPos, report_tables,
                   report_resolutions, errors, apiVars, histVars, mysql_conn,
                   fetched, batchPos>>

\* api lines 207-222: the warnings or the all-clear, status "completed",
\* then `finally`: both connections are closed
ApiFinish ==
    /\ entry = "api" /\ pc = "finish"
    /\ logs' = (IF validation_errors # <<>>
                THEN logs \o [i \in 1..Len(validation_errors) |->
                                 [kind |-> "warning",
                                  table |-> validation_errors[i].table]]
                ELSE Append(logs, [kind |-> "validated", table |-> ""]))
               \o <<[kind |-> "finished", table |-> ""]>>
    /\ status' = "completed"
    /\ mysql_conn' = "closed"
    /\ pc' = "done"
    /\ UNCHANGED <<inputVars, caught, srcVars, resVars, partVars, tblPos, repVars,
                   progress, validation_errors, histVars, tgt, txn, fetched,
                   batchPos>>

-----------------------------------------------------------------------------
(* Errors.  One statement of a run may raise.  A statement sent to MySQL   *)
(* is either rejected by the server (the connection stays usable) or fails  *)
(* because the connection is lost.                                          *)

Error(kind) == [phase |-> pc, table |-> IF pc \in {"connect", "list", "commit"}
                                        THEN "" ELSE table,
                kind |-> kind]

\* `except Exception as e:` and `finally:` of run() (lines 406-414) and of
\* run_migration_task (lines 216-222), entered with the connection in state
\* conn and the server holding tg and the open transaction tx.
\* rollback() on a lost connection raises in its turn: the rest of the except
\* block is skipped, `finally` still runs.  Closing the SQLite connection (the
\* api run; the end of the process for the cli) discards uncommitted writes.
HandleError(err, conn, tg, tx) ==
    /\ raised' = err
    /\ tgt' = tg
    /\ IF conn = "lost"
       THEN /\ txn' = tx
            /\ status' = status
            /\ errors' = errors
            /\ logs' = logs
            /\ pc' = "crashed"
       ELSE /\ txn' = EmptyTxn
            /\ status' = ExceptStatus
            /\ errors' = IF entry = "cli" THEN Append(errors, err) ELSE errors
            /\ logs' = IF entry = "api"
                       THEN Append(logs, [kind |-> "critical", table |-> err.table])
                       ELSE logs
            /\ pc' = "done"
    /\ reported' = (entry = "cli")
    /\ mysql_conn' = IF entry = "api" /\ conn # "none" THEN "closed" ELSE conn
    /\ src' = src_disk
    /\ UNCHANGED <<inputVars, caught, src_disk, src0, resVars, partVars, tblPos,
                   report_tables, report_resolutions, progress,
                   validation_errors, runNo, firstCounts, tampered, fetched,
                   batchPos>>

\* the connection to MySQL cannot be opened.  connect_mysql() logs and calls
\* sys.exit(1); in the api run the call is inside the try block.
ConnectFails ==
    /\ pc = "connect" /\ raised = NoError
    /\ IF entry = "cli"
       THEN /\ raised' = Error("refused")
            /\ pc' = "exited"
            /\ UNCHANGED <<inputVars, caught, srcVars, resVars, partVars, tblPos, status,
                           repVars, apiVars, runNo, firstCounts, tampered,
                           tgtVars>>
       ELSE HandleError(Error("refused"), "none", tgt, txn)

\* the table listing raises.  run() calls get_tables() before its try block:
\* the exception leaves run(); in the api run the query is inside the try.
GetTablesFails ==
    /\ pc = "list" /\ raised = NoError
    /\ IF entry = "cli"
       THEN /\ raised' = Error("sqlite")
            /\ pc' = "crashed"
            /\ UNCHANGED <<inputVars, caught, srcVars, resVars, partVars, tblPos, status,
                           repVars, apiVars, runNo, firstCounts, tampered,
                           tgtVars>>
       ELSE HandleError(Error("sqlite"), mysql_conn, tgt, txn)

\* a catalog read of the resolution phase raises: get_indexes() or
\* get_table_schema() in resolve() (lines 143, 158, outside its try), PRAGMA
\* table_info in the api loop
ResolveFails ==
    /\ pc = "resolve" /\ rpc = "idle" /\ raised = NoError
    /\ HandleError(Error("sqlite"), mysql_conn, tgt, txn)

\* a statement of the run has failed and the run went on
Recovered == \E i \in 1..Len(caught) : caught[i].kind # "binding"

\* the detection query raises.  find_duplicates() catches
\* sqlite3.OperationalError and returns [] (lines 131-135); any other error
\* leaves resolve().  The api loop runs the query with no try of its own.
FindDuplicatesFails ==
    /\ pc = "resolve" /\ rpc = "find" /\ idxPos <= Len(unique_indexes)
    /\ raised = NoError /\ ~Recovered
    /\ \E kind \in {"operational", "other"} :
         IF entry = "cli" /\ kind = "operational"
         THEN /\ caught' = Append(caught, [phase |-> "find", table |-> table,
                                           kind |-> kind])
              /\ dupes' = <<>>
              /\ idxPos' = idxPos + 1
              /\ rpc' = "find"
              /\ UNCHANGED <<inputVars, srcVars, unique_indexes, resolutions,
                             runVars, tgtVars, partVars>>
         ELSE HandleError([phase |-> "find", table |-> table, kind |-> kind],
                          mysql_conn, tgt, txn)

\* the keeper lookup or the DELETE of one combination raises.  resolve()
\* catches it (`except Exception`, lines 205-206) and takes the next
\* combination; the api loop has no try of its own.
ResolveDupeFails ==
    /\ pc = "resolve" /\ rpc = "dupe" /\ dupes # <<>>
    /\ raised = NoError /\ ~Recovered
    /\ IF entry = "cli"
       THEN /\ caught' = Append(caught, [phase |-> "dupe", table |-> table,
                                         kind |-> "sqlite"])
            /\ dupes' = Tail(dupes)
            /\ IF Tail(dupes) = <<>>
               THEN idxPos' = idxPos + 1 /\ rpc' = "find"
               ELSE idxPos' = idxPos /\ rpc' = "dupe"
            /\ UNCHANGED <<inputVars, srcVars, unique_indexes, resolutions,
                           runVars, tgtVars, partVars>>
       ELSE HandleError([phase |-> "dupe", table |-> table, kind |-> "sqlite"],
                        mysql_conn, tgt, txn)

\* create_mysql_schema lines 327-333: CREATE UNIQUE INDEX is rejected, the
\* warning goes to the logger and the index is created non-unique
UniqueIndexFallback ==
    /\ pc = "index"
    /\ raised = NoError /\ ~Recovered
    /\ \E i \in 1..Len(indexes[table]) :
         /\ indexes[table][i].unique # 0
         /\ tgt' = [Committed(tgt, txn) EXCEPT ![table].indexes =
                       {indexes[table][j].name :
                           j \in (1..Len(indexes[table])) \ {i}}
                       \cup {indexes[table][i].name \o "_non_unique"}]
    /\ txn' = EmptyTxn
    /\ caught' = Append(caught, [phase |-> "index", table |-> table,
                                 kind |-> "rejected"])
    /\ pc' = "select"
    /\ UNCHANGED <<inputVars, srcVars, resVars, partVars, tblPos, status, repVars,
                   apiVars, histVars, mysql_conn, fetched, batchPos>>

\* a read of the source raises: SELECT * of the data step, SELECT COUNT(*) of
\* validation
SourceReadFails ==
    /\ pc \in {"select", "validate"} /\ raised = NoError
    /\ HandleError(Error("sqlite"), mysql_conn, tgt, txn)

\* the server rejects a statement.  DROP TABLE and CREATE TABLE have
\* committed the open transaction before they fail.
StatementRejected ==
    /\ pc \in {"drop", "create", "batch", "commit", "validate"}
    /\ raised = NoError
    /\ IF pc \in {"drop", "create"}
       THEN HandleError(Error("rejected"), mysql_conn, Committed(tgt, txn), EmptyTxn)
       ELSE HandleError(Error("rejected"), mysql_conn, tgt, txn)

\* the connection is lost at a statement: the statement does not reach the
\* server, which discards the open transaction
ConnectionLost ==
    /\ pc \in {"drop", "create", "batch", "commit", "validate"}
    /\ raised = NoError
    /\ HandleError(Error("lost"), "lost", tgt, EmptyTxn)

-----------------------------------------------------------------------------
(* The surroundings of a run *)

\* a row added by hand to a source table once the tables are transferred and
\* before the counts are read (another connection, committed)
ExternalInsert ==
    /\ pc = "validate" /\ tblPos = 1 /\ ~tampered
    /\ \E t \in Range(tables) :
         LET ids == {r.rowid : r \in src[t]}
             new == [rowid |-> IF ids = {} THEN 1
                               ELSE (CHOOSE x \in ids : \A y \in ids : y <= x) + 1,
                     vals  |-> [i \in 1..Len(schema[t]) |-> NULL]]
         IN  /\ src' = [src EXCEPT ![t] = @ \cup {new}]
             /\ src_disk' = [src_disk EXCEPT ![t] = @ \cup {new}]
    /\ tampered' = TRUE
    /\ UNCHANGED <<inputVars, caught, src0, resVars, partVars, pc, tblPos, status, repVars,
                   apiVars, raised, runNo, firstCounts, tgtVars>>

InitialStatus == IF entry = "cli" THEN "started" ELSE "pending"

InitialPc == IF entry = "cli" THEN "connect" ELSE "start"

\* the migration is started again on the same source with the same options:
\* main() builds a new Migrator (Migrator.__init__), start_migration a new
\* status entry; the target keeps what the run before committed.  The run
\* before completed with no statement failing on the way.
Rerun ==
    /\ pc = "done" /\ status = "completed" /\ ~tampered
    /\ ~Recovered
    /\ runNo < MaxRuns
    /\ firstCounts' = IF runNo = 1 THEN [t \in Range(tables) |-> Len(tgt[t].rows)]
                      ELSE firstCounts
    /\ runNo' = runNo + 1
    /\ status' = InitialStatus
    /\ pc' = InitialPc
    /\ report_tables' = [t \in Range(tables) |-> NoEntry]
    /\ report_resolutions' = <<>>
    /\ errors' = <<>>
    /\ reported' = FALSE
    /\ progress' = 0
    /\ logs' = <<>>
    /\ validation_errors' = <<>>
    /\ mysql_conn' = "none"
    /\ txn' = EmptyTxn
    /\ fetched' = <<>>
    /\ batchPos' = 0
    /\ rpc' = "idle"
    /\ unique_indexes' = <<>>
    /\ idxPos' = 1
    /\ dupes' = <<>>
    /\ resolutions' = <<>>
    /\ tblPos' = 1
    /\ caught' = <<>>
    /\ UNCHANGED <<inputVars, srcVars, partVars, raised, tampered, tgt>>

\* the source databases of the modelled runs: tables `user` (no index: the
\* file of test_setup.py) and `org` (unique index on name)
RunSources ==
    { [user |-> ExampleRowsOfUser,
       org  |-> {[rowid |-> 1, vals |-> <<"admin">>]}],
      [user |-> {},
       org  |-> {[rowid |-> 1, vals |-> <<"admin">>],
                 [rowid |-> 2, vals |-> <<"user1">>],
                 [rowid |-> 4, vals |-> <<NULL>>]}] }

Init ==
    /\ entry \in {"cli", "api"}
    /\ \E res \in BOOLEAN, strat \in {"remove", "rename"}, data \in BOOLEAN :
           /\ entry = "cli" => data
           /\ options = [resolve_duplicates |-> res, duplicate_strategy |-> strat,
                         include_data |-> data]
    /\ tables = <<"user", "org">>
    /\ schema = [user |-> <<"login", "email">>, org |-> <<"name">>]
    /\ indexes = [user |-> <<>>,
                  org  |-> <<[name |-> "idx_org_name", unique |-> 1,
                              columns |-> <<"name">>]>>]
    /\ src \in RunSources
    /\ src_disk = src
    /\ src0 = src
    /\ pc = InitialPc
    /\ RunIdle
    /\ PartsIdle

Next ==
    \/ ApiStart
    \/ Connect
    \/ GetTables
    \/ ResolveBegin
    \/ FindDuplicates
    \/ ResolveDupe
    \/ ResolveEnd
    \/ ResolveReturn
    \/ DropTable
    \/ CreateTable
    \/ CreateIndexes
    \/ SelectRows
    \/ InsertBatch
    \/ RecordTable
    \/ Validate
    \/ Commit
    \/ ApiFinish
    \/ ConnectFails
    \/ GetTablesFails
    \/ ResolveFails
    \/ FindDuplicatesFails
    \/ ResolveDupeFails
    \/ UniqueIndexFallback
    \/ SourceReadFails
    \/ StatementRejected
    \/ ConnectionLost
    \/ ExternalInsert
    \/ Rerun

Spec == Init /\ [][Next]_vars

-----------------------------------------------------------------------------
(* Duplicate resolution: claims C1 to C4 (specification SpecResolve) *)

\* the rows of a set that hold combination key in columns cols
Holding(rows, t, cols, key) == {r \in rows : Proj(r, t, cols) = key}

\* no combination of cols is held by two rows
NoDuplicate(rows, t, cols) ==
    \A r1, r2 \in rows : Proj(r1, t, cols) = Proj(r2, t, cols) => r1 = r2

\* the combinations of cols that several rows hold
Violating(rows, t, cols) ==
    {k \in {Proj(r, t, cols) : r \in rows} :
        Cardinality(Holding(rows, t, cols, k)) > 1}

LowestRow(rows) == CHOOSE r \in rows : \A q \in rows : r.rowid <= q.rowid

Groups == 1..Len(unique_indexes)

ResolveReturned(strat) ==
    pc = "standalone" /\ rpc = "returned" /\ strategy = strat

\* the log resolution has written: the returned list (cli), the run's log (api)
ResolutionLog == IF entry = "cli" THEN resolutions ELSE logs

ExampleRows == ExampleRowsOfUser

ExampleInput ==
    /\ table = "user"
    /\ schema[table] = <<"login", "email">>
    /\ indexes[table] = <<>>
    /\ src0[table] = ExampleRows

C1_AtReturn ==
    ResolveReturned("remove") =>
        /\ \A i \in Groups :
              NoDuplicate(src[table], table, unique_indexes[i].columns)
        /\ Len(unique_indexes) = 1 =>
              \A k \in Violating(src0[table], table, unique_indexes[1].columns) :
                  Holding(src[table], table, unique_indexes[1].columns, k) =
                      {LowestRow(Holding(src0[table], table,
                                         unique_indexes[1].columns, k))}
        /\ ExampleInput =>
              /\ src[table] = {r \in ExampleRows : r.rowid # 3}
              /\ Len(ResolutionLog) = 1
              /\ ResolutionLog[1].kind = "removed"
              /\ ResolutionLog[1].table = "user"
              /\ ResolutionLog[1].count = 1

\* step part of C1 as amended: resolving one violating combination keeps,
\* of the rows that hold it at that moment, the one with the lowest rowid,
\* deletes the others and no other row
C1_StepKeepsLowest ==
    (pc = "standalone" /\ rpc = "dupe" /\ strategy = "remove") =>
        LET cols == unique_indexes[idxPos].columns
            held == Holding(src[table], table, cols, Head(dupes).key)
        IN  src'[table] =
                IF held = {} THEN src[table]
                ELSE (src[table] \ held) \cup {LowestRow(held)}

NonKeepers(rows, t, cols, k) ==
    SortIds({r.rowid : r \in Holding(rows, t, cols, k)}
            \ {LowestRow(Holding(rows, t, cols, k)).rowid})

\* C2: with `rename`, every non-keeper row of a violating combination has
\* the constraint's first column rewritten to <original>_dup_i (i = 1, 2, ...
\* over the non-keepers), no row is deleted and each rename is logged; on
\* the example row 3's login becomes admin_dup_1 and 3 rows remain.
C2_RenameRewritesNonKeepers ==
    (ResolveReturned("rename") /\ Len(unique_indexes) = 1) =>
        LET cols == unique_indexes[1].columns
            p    == ColIndex(table, cols[1])
        IN  /\ {r.rowid : r \in src[table]} = {r.rowid : r \in src0[table]}
            /\ \A k \in Violating(src0[table], table, cols) :
                  LET ids == NonKeepers(src0[table], table, cols, k)
                  IN  \A i \in 1..Len(ids) :
                          LET new == PyStr(k[1]) \o "_dup_" \o ToString(i)
                          IN  /\ \E r \in src[table] :
                                     r.rowid = ids[i] /\ r.vals[p] = new
                              /\ \E j \in 1..Len(ResolutionLog) :
                                     /\ ResolutionLog[j].kind = "renamed"
                                     /\ ResolutionLog[j].orig = PyStr(k[1])
                                     /\ ResolutionLog[j].new = new

\* C3: with `rename`, when resolution returns no combination of a checked
\* group is held by two rows, and the keeper rows are as they were.
C3_RenameLeavesNoDuplicate ==
    ResolveReturned("rename") =>
        \A i \in Groups :
            LET cols == unique_indexes[i].columns
            IN  /\ NoDuplicate(src[table], table, cols)
                /\ \A k \in Violating(src0[table], table, cols) :
                       LowestRow(Holding(src0[table], table, cols, k)) \in src[table]

\* C4: a table none of whose checked groups has a combination held by two
\* rows keeps its rows, and the resolution log is empty, with either strategy.
C4_NoViolationNoChange ==
    (pc = "standalone" /\ rpc = "returned"
        /\ \A i \in Groups :
              NoDuplicate(src0[table], table, unique_indexes[i].columns)) =>
        /\ ResolutionLog = <<>>
        /\ src[table] = src0[table]

\* C4 witness: resolution returned on a table of several rows, with a group
\* to check and no violation
C4_Witness ==
    /\ pc = "standalone" /\ rpc = "returned"
    /\ Cardinality(src0[table]) >= 2
    /\ Len(unique_indexes) >= 1
    /\ \A i \in Groups :
          NoDuplicate(src0[table], table, unique_indexes[i].columns)
    /\ ResolutionLog = <<>>

-----------------------------------------------------------------------------
(* The run: claims C5 to C9 (specification Spec) *)

RunEnded == pc \in {"done", "exited", "crashed"}

SameRun == runNo' = runNo

StatusValues ==
    IF entry = "cli" THEN {"started", "completed", "failed"}
    ELSE {"pending", "migrating", "completed", "failed"}

StatusMoves ==
    IF entry = "cli"
    THEN {<<"started", "completed">>, <<"started", "failed">>}
    ELSE {<<"pending", "migrating">>, <<"migrating", "completed">>,
          <<"migrating", "failed">>}

ErrorRecorded ==
    IF entry = "cli" THEN reported /\ errors # <<>>
    ELSE \E i \in 1..Len(logs) : logs[i].kind = "critical"

\* C6: a run in which a statement raised, at whatever phase, ends with the
\* target transaction rolled back, status failed and the error recorded; no
\* run ends with a status other than completed or failed.
C6_ErrorEndsFailedAndRecorded ==
    RunEnded =>
        /\ status \in {"completed", "failed"}
        /\ raised # NoError =>
              /\ status = "failed"
              /\ txn = EmptyTxn
              /\ ErrorRecorded

TableIndex(t) == CHOOSE k \in 1..Len(tables) : tables[k] = t

\* the target holds table t as the run transfers it
Migrated(t) ==
    /\ tgt[t].exists
    /\ tgt[t].rows = IF options.include_data THEN RowsInOrder(src[t]) ELSE <<>>

\* C7: when the schema/data step of table k fails (first run, empty
\* target), the target holds no row of table k and every table before k is
\* migrated.
C7_FailureLosesOnlyTableK ==
    (RunEnded /\ runNo = 1 /\ raised.phase \in {"drop", "create", "select", "batch"}) =>
        LET k == TableIndex(raised.table)
        IN  /\ tgt[tables[k]].rows = <<>>
            /\ txn[tables[k]] = <<>>
            /\ \A j \in 1..(k - 1) : Migrated(tables[j])

\* a step of Validate: at the validation loop, nothing raised, no row added
ValidateStep == pc = "validate" /\ raised' = raised /\ tampered' = tampered

C8_ValidationRecordsCounts ==
    ValidateStep =>
        LET differ == Cardinality(src[table]) # TargetCount(table)
        IN  IF entry = "cli"
            THEN report_tables'[table].validation =
                     IF differ THEN "count_mismatch" ELSE "ok"
            ELSE /\ differ => validation_errors' =
                                  Append(validation_errors,
                                         [table |-> table,
                                          sqlite |-> Cardinality(src[table]),
                                          mysql |-> TargetCount(table)])
                 /\ ~differ => validation_errors' = validation_errors

C8_MismatchIsNoFailure ==
    /\ \A t \in Range(tables) :
          report_tables[t].validation \in {"none", "ok", "count_mismatch"}
    /\ (pc = "done" /\ raised = NoError) => status = "completed"

\* C8: the validation result recorded for a table is ok exactly when the
\* source count equals the target count, count_mismatch otherwise (the api
\* run records the mismatching tables); a mismatch raises nothing: a run in
\* which no statement raised ends completed.
C8_CountValidation ==
    [](C8_MismatchIsNoFailure) /\ [][C8_ValidationRecordsCounts]_vars

\* C8 witness: a cli run completed with a table recorded count_mismatch
C8_Witness ==
    /\ entry = "cli" /\ pc = "done" /\ status = "completed"
    /\ \E t \in Range(tables) :
          /\ report_tables[t].validation = "count_mismatch"
          /\ Cardinality(src[t]) # Len(tgt[t].rows)

-----------------------------------------------------------------------------
(* DDL synthesis: create_mysql_schema lines 275-313, run_migration_task     *)
(* lines 153-173.  A column of PRAGMA table_info is [name, type, notnull,   *)
(* dflt_value, pk]; pk is 0 or the column's position in the primary key.    *)

\* most columns of a table whose DDL is synthesized
MaxCols == 2

\* dflt_value None
NoDefault == <<NULL>>

Digits == {"0", "1", "2", "3", "4", "5", "6", "7", "8", "9"}

\* str.isdigit()
IsDigit(str) == Len(str) > 0 /\ \A i \in 1..Len(str) : str[i] \in Digits

\* lines 286-297: the DEFAULT clause; an expression default is dropped
DefaultStr(dflt) ==
    IF dflt = NoDefault THEN <<>>
    ELSE IF Upper(dflt) = <<"C", "U", "R", "R", "E", "N", "T", "_", "T", "I", "M", "E", "S", "T", "A", "M", "P">>
         THEN <<"D", "E", "F", "A", "U", "L", "T", " ", "C", "U", "R", "R", "E", "N", "T", "_", "T", "I", "M", "E", "S", "T", "A", "M", "P">>
    ELSE IF Len(dflt) > 0 /\ dflt[1] = "'" /\ dflt[Len(dflt)] = "'"
         THEN <<"D", "E", "F", "A", "U", "L", "T", " ">> \o dflt
    ELSE IF IsDigit(dflt) THEN <<"D", "E", "F", "A", "U", "L", "T", " ">> \o dflt
    ELSE <<>>

\* lines 299-304 (cli), 163-165 (api):
\* `if col['pk'] and "INT" in mysql_type.upper(): extra = "AUTO_INCREMENT"`
Extra(col, columns) ==
    IF col.pk # 0 /\ Contains(<<"I", "N", "T">>, Upper(map_type(col.type)))
    THEN "AUTO_INCREMENT" ELSE ""

\* one column clause of the CREATE TABLE; the api run writes no DEFAULT
ColumnClause(col, columns) ==
    [name        |-> col.name,
     mysql_type  |-> map_type(col.type),
     null_str    |-> IF col.notnull # 0 THEN "NOT NULL" ELSE "NULL",
     default_str |-> IF entry = "cli" THEN DefaultStr(col.dflt_value) ELSE <<>>,
     extra       |-> Extra(col, columns)]

\* the columns create_mysql_schema / run_migration_task turn into the
\* CREATE TABLE: the column clauses and the PRIMARY KEY columns
SynthesizeDDL ==
    /\ pc = "ddl"
    /\ ~ddl_out.done
    /\ ddl_out' =
          [columns |-> [i \in 1..Len(ddl_columns) |->
                           ColumnClause(ddl_columns[i], ddl_columns)],
           pk_cols |-> LET pk == SelectSeq(ddl_columns, LAMBDA c : c.pk # 0)
                       IN  [i \in 1..Len(pk) |-> pk[i].name],
           done    |-> TRUE]
    /\ UNCHANGED <<inputVars, caught, srcVars, resVars, runVars, tgtVars, ddl_columns,
                   typeVars, mapVars>>

\* declared types of the modelled columns
TypeChoices ==
    { <<"I", "N", "T", "E", "G", "E", "R">>,
      <<"i", "n", "t">>,
      <<"B", "I", "G", "I", "N", "T">>,
      <<"T", "E", "X", "T">>,
      <<"V", "A", "R", "C", "H", "A", "R", "(", "4", "0", ")">>,
      <<"N", "U", "M", "E", "R", "I", "C">> }

\* (notnull, dflt_value) of the modelled columns
DefaultChoices ==
    { <<0, NoDefault>>,
      <<1, <<"0">>>>,
      <<0, <<"C", "U", "R", "R", "E", "N", "T", "_", "T", "I", "M", "E", "S", "T", "A", "M", "P">>>>,
      <<1, <<"'", "x", "'">>>> }

ColumnNames == <<"c1", "c2", "c3", "c4">>

InitDDL ==
    /\ entry \in {"cli", "api"}
    /\ options = [resolve_duplicates |-> FALSE, duplicate_strategy |-> "remove",
                  include_data |-> TRUE]
    /\ tables = <<"user">>
    /\ schema = [t \in {"user"} |-> <<"login", "email">>]
    /\ indexes = [t \in {"user"} |-> <<>>]
    /\ src = [t \in {"user"} |-> {}]
    /\ src_disk = src
    /\ src0 = src
    /\ pc = "ddl"
    /\ RunIdle
    /\ ddl_out = NoDdl
    /\ TypeIdle
    /\ MapIdle
    /\ \E n \in 1..MaxCols :
       \E ty \in [1..n -> TypeChoices], df \in [1..n -> DefaultChoices],
          key \in SUBSET (1..n) :
           ddl_columns =
               [i \in 1..n |->
                   [name       |-> ColumnNames[i],
                    type       |-> ty[i],
                    notnull    |-> df[i][1],
                    dflt_value |-> df[i][2],
                    pk         |-> IF i \in key
                                   THEN Cardinality({j \in key : j <= i})
                                   ELSE 0]]

NextDDL == SynthesizeDDL

SpecDDL == InitDDL /\ [][NextDDL]_vars

-----------------------------------------------------------------------------
(* DDL synthesis: claim C10 (specification SpecDDL) *)

IntegerFamily ==
    { <<"I", "N", "T">>, <<"T", "I", "N", "Y", "I", "N", "T">>,
      <<"S", "M", "A", "L", "L", "I", "N", "T">>,
      <<"M", "E", "D", "I", "U", "M", "I", "N", "T">>,
      <<"B", "I", "G", "I", "N", "T">>,
      <<"B", "I", "G", "I", "N", "T", " ", "U", "N", "S", "I", "G", "N", "E", "D">> }

PrimaryKeySize == Cardinality({i \in 1..Len(ddl_columns) : ddl_columns[i].pk # 0})

\* C10: a column carries AUTO_INCREMENT exactly when it is the only
\* primary-key column of the table and its mapped type is an integer type;
\* no column of a composite key carries it.
C10_AutoIncrementOnlySinglePk ==
    ddl_out.done =>
        \A i \in 1..Len(ddl_columns) :
            (ddl_out.columns[i].extra = "AUTO_INCREMENT") <=>
                /\ ddl_columns[i].pk # 0
                /\ PrimaryKeySize = 1
                /\ map_type(ddl_columns[i].type) \in IntegerFamily

-----------------------------------------------------------------------------
(* TypeMapper.map_type called on its own (specification SpecTypes) *)

\* calls of map_type on the same input
MaxCalls == 2

\* str.lower() of one character
LowerChar(c) ==
    IF \E i \in 1..Len(UpperCase) : UpperCase[i] = c
    THEN LowerCase[CHOOSE i \in 1..Len(UpperCase) : UpperCase[i] = c]
    ELSE c

\* str.lower()
Lower(str) == [i \in 1..Len(str) |-> LowerChar(str[i])]

\* declared type names: the keys of MAPPING and names outside it
TypeKeywords ==
    { <<"I", "N", "T", "E", "G", "E", "R">>,
      <<"I", "N", "T">>,
      <<"T", "I", "N", "Y", "I", "N", "T">>,
      <<"S", "M", "A", "L", "L", "I", "N", "T">>,
      <<"M", "E", "D", "I", "U", "M", "I", "N", "T">>,
      <<"B", "I", "G", "I", "N", "T">>,
      <<"U", "N", "S", "I", "G", "N", "E", "D", " ", "B", "I", "G", " ", "I", "N", "T">>,
      <<"I", "N", "T", "2">>,
      <<"I", "N", "T", "8">>,
      <<"T", "E", "X", "T">>,
      <<"C", "L", "O", "B">>,
      <<"B", "L", "O", "B">>,
      <<"R", "E", "A", "L">>,
      <<"D", "O", "U", "B", "L", "E">>,
      <<"D", "O", "U", "B", "L", "E", " ", "P", "R", "E", "C", "I", "S", "I", "O", "N">>,
      <<"F", "L", "O", "A", "T">>,
      <<"N", "U", "M", "E", "R", "I", "C">>,
      <<"B", "O", "O", "L", "E", "A", "N">>,
      <<"D", "A", "T", "E", "T", "I", "M", "E">>,
      <<"D", "A", "T", "E">>,
      <<"V", "A", "R", "C", "H", "A", "R">>,
      <<"N", "V", "A", "R", "C", "H", "A", "R">>,
      <<"C", "H", "A", "R", "A", "C", "T", "E", "R">>,
      <<"P", "O", "I", "N", "T">>,
      <<"J", "S", "O", "N">>,
      <<>> }

\* the length suffix of a declared type
TypeSuffixes == { <<>>, <<"(", "1", "1", ")">> }

\* the declared types map_type is called with: a keyword, with or without a
\* length suffix, as written (upper case) or in lower case
TypeInputs ==
    { IF low THEN Lower(k \o x) ELSE k \o x :
         k \in TypeKeywords, x \in TypeSuffixes, low \in BOOLEAN }

\* one call of TypeMapper.map_type(type_in)
MapType ==
    /\ pc = "types"
    /\ Len(type_out) < MaxCalls
    /\ type_out' = Append(type_out, map_type(type_in))
    /\ UNCHANGED <<inputVars, caught, srcVars, resVars, runVars, tgtVars, ddlVars,
                   type_in, mapVars>>

InitTypes ==
    /\ entry \in {"cli", "api"}
    /\ options = [resolve_duplicates |-> FALSE, duplicate_strategy |-> "remove",
                  include_data |-> TRUE]
    /\ tables = <<"user">>
    /\ schema = [t \in {"user"} |-> <<"login", "email">>]
    /\ indexes = [t \in {"user"} |-> <<>>]
    /\ src = [t \in {"user"} |-> {}]
    /\ src_disk = src
    /\ src0 = src
    /\ pc = "types"
    /\ RunIdle
    /\ DdlIdle
    /\ MapIdle
    /\ type_in \in TypeInputs
    /\ type_out = <<>>

NextTypes == MapType

SpecTypes == InitTypes /\ [][NextTypes]_vars

-----------------------------------------------------------------------------
(* TypeMapper: claims C11 and C12 (specification SpecTypes) *)

IsVarchar(str) == Contains(<<"V", "A", "R", "C", "H", "A", "R">>, Upper(str))

HasParen(str) == Contains(<<"(">>, Upper(str))

\* the positions in MAPPING of the rules whose key is a substring of the
\* upper-cased input
RuleMatches(str) ==
    {j \in 1..Len(MAPPING) : Contains(MAPPING[j][1], Upper(str))}

\* the value of the rule-table path or of the fallback
RuleOrFallback(str) ==
    IF RuleMatches(str) = {} THEN <<"L", "O", "N", "G", "T", "E", "X", "T">>
    ELSE MAPPING[Min(RuleMatches(str))][2]

\* C11 as stated: every call returns the same value, which is the input as
\* it is (VARCHAR with a length qualifier), VARCHAR(255), the first matching
\* rule's value, or LONGTEXT.
C11_VarcharReturnedAsIs ==
    \A i \in 1..Len(type_out) :
        type_out[i] =
            IF IsVarchar(type_in)
            THEN IF HasParen(type_in) THEN type_in ELSE <<"V", "A", "R", "C", "H", "A", "R", "(", "2", "5", "5", ")">>
            ELSE RuleOrFallback(type_in)

\* C11 (amended): every call of map_type on an input returns, and returns the
\* same value: the upper-cased input when its upper-cased form contains
\* VARCHAR and an opening parenthesis, VARCHAR(255) when it contains VARCHAR
\* and no parenthesis, else the value of the first rule of the table whose
\* key is a substring of the upper-cased input, else LONGTEXT.
C11_TotalDeterministicThreePaths ==
    /\ pc = "types" => Len(type_out) <= MaxCalls
    /\ \A i \in 1..Len(type_out) :
        /\ type_out[i] = type_out[1]
        /\ type_out[i] =
              IF IsVarchar(type_in)
              THEN IF HasParen(type_in) THEN Upper(type_in) ELSE <<"V", "A", "R", "C", "H", "A", "R", "(", "2", "5", "5", ")">>
              ELSE RuleOrFallback(type_in)

\* C11 witness: two calls on a lower-case varchar with a length qualifier
C11_Witness ==
    /\ type_in = <<"v", "a", "r", "c", "h", "a", "r", "(", "1", "1", ")">>
    /\ Len(type_out) = 2
    /\ type_out[2] = <<"V", "A", "R", "C", "H", "A", "R", "(", "1", "1", ")">>

\* the integer keywords and the target type written for each
IntegerRules ==
    { <<<<"T", "I", "N", "Y", "I", "N", "T">>, <<"T", "I", "N", "Y", "I", "N", "T">>>>,
      <<<<"S", "M", "A", "L", "L", "I", "N", "T">>, <<"S", "M", "A", "L", "L", "I", "N", "T">>>>,
      <<<<"I", "N", "T", "2">>, <<"S", "M", "A", "L", "L", "I", "N", "T">>>>,
      <<<<"M", "E", "D", "I", "U", "M", "I", "N", "T">>, <<"M", "E", "D", "I", "U", "M", "I", "N", "T">>>>,
      <<<<"I", "N", "T">>, <<"I", "N", "T">>>>,
      <<<<"I", "N", "T", "E", "G", "E", "R">>, <<"I", "N", "T">>>>,
      <<<<"B", "I", "G", "I", "N", "T">>, <<"B", "I", "G", "I", "N", "T">>>>,
      <<<<"I", "N", "T", "8">>, <<"B", "I", "G", "I", "N", "T">>>>,
      <<<<"U", "N", "S", "I", "G", "N", "E", "D", " ", "B", "I", "G", " ", "I", "N", "T">>, <<"B", "I", "G", "I", "N", "T", " ", "U", "N", "S", "I", "G", "N", "E", "D">>>> }

\* C12: for an integer keyword, with or without a length suffix, map_type
\* returns the target type of the rule written for that keyword.
C12_IntegerFamilyKeepsWidth ==
    \A r \in IntegerRules, x \in TypeSuffixes :
        Upper(type_in) = r[1] \o x =>
            \A i \in 1..Len(type_out) : type_out[i] = r[2]

-----------------------------------------------------------------------------
(* The run: claims C13 to C18 (specification Spec) *)

\* C13: a failure while resolving one constraint group (detection query,
\* keeper lookup, delete) never aborts the run: no run ends on it, and when
\* the run reaches the target's DDL what was resolved is committed.
C13_ResolutionFailureNeverAborts ==
    /\ raised.phase \notin {"find", "dupe"}
    /\ (pc = "drop" /\ \E i \in 1..Len(caught) : caught[i].phase \in {"find", "dupe"})
          => src = src_disk

\* the error e has an entry in the run's report (cli: report["errors"]; api:
\* a warning or critical line of the status log)
InReport(e) ==
    IF entry = "cli" THEN \E j \in 1..Len(errors) : errors[j] = e
    ELSE \E j \in 1..Len(logs) :
            logs[j].kind \in {"critical", "warning"} /\ logs[j].table = e.table

\* C14: every error raised during a run, the recovered ones included, has an
\* entry in the final report.
C14_NoErrorDropped ==
    pc = "done" =>
        /\ raised # NoError => InReport(raised)
        /\ \A i \in 1..Len(caught) : InReport(caught[i])

\* C15: when the schema or data step of a table raises, the report has a
\* per-table entry for that table with status failed.
C15_FailedTableInReport ==
    (entry = "cli" /\ reported
       /\ raised.phase \in {"drop", "create", "index", "select", "batch"})
        => report_tables[raised.table].status = "failed"

\* C16: the validation count reads happen after the target transaction
\* holding the tables' data has been committed, and a failure raised during
\* validation leaves every table migrated.
C16_ValidationAfterCommit ==
    /\ pc = "validate" => txn = EmptyTxn
    /\ (RunEnded /\ raised.phase = "validate" /\ ~tampered /\ runNo = 1)
          => \A t \in Range(tables) : Migrated(t)

\* the run is between its first statement on the target and its end
TargetPhase ==
    pc \in {"drop", "create", "index", "select", "batch", "record", "validate",
            "commit", "finish", "done", "crashed"}

\* a step of the run itself (no row added by hand, no new run)
RunStep == tampered' = tampered /\ SameRun

C17_SourceCommitted ==
    pc \in {"drop", "create", "index", "select", "batch", "record", "validate",
            "commit", "finish"} => src_disk = src

C17_WritesOnlyInResolution ==
    RunStep =>
        /\ src' # src => pc = "resolve" /\ options.resolve_duplicates
        /\ src_disk' # src_disk => pc = "resolve" /\ options.resolve_duplicates
        /\ TargetPhase => src' = src /\ src_disk' = src_disk

\* C17: every write to the source belongs to the duplicate-resolution phase
\* and is committed on the source before the first statement on the target;
\* from then on the source is only read; with duplicate resolution disabled
\* the source is never written.
C17_SourceWrittenBeforeTarget ==
    [](C17_SourceCommitted) /\ [][C17_WritesOnlyInResolution]_vars

\* C17 witness: the first DROP TABLE is next and the resolution's delete of
\* row 3 of user is in the file
C17_Witness ==
    /\ pc = "drop" /\ tblPos = 1 /\ options.resolve_duplicates
    /\ src_disk["user"] # ExampleRows
    /\ Cardinality(src_disk["user"]) = 2

\* a pass of the batch loop that raised nothing
BatchStep == pc = "batch" /\ raised' = raised

C18_BatchesInOrder ==
    BatchStep =>
        LET sent == Len(txn[table])
            now  == Len(txn'[table])
        IN  /\ sent = batchPos
            /\ sent % batch_size = 0
            /\ now > sent /\ now - sent <= batch_size
            /\ txn'[table] = SubSeq(fetched, 1, now)
            /\ pc' = "batch" => now - sent = batch_size /\ now < Len(fetched)
            /\ pc' # "batch" => pc' = "record" /\ now = Len(fetched)

C18_AllRowsOnce ==
    (pc = "record" /\ options.include_data) =>
        LET N == Cardinality(src[table])
        IN  /\ txn[table] = RowsInOrder(src[table])
            /\ tgt[table].rows = <<>>
            /\ batchPos = batch_size * ((N + batch_size - 1) \div batch_size)

\* C18: a table of N rows is sent in ceil(N / batch_size) batches, each of
\* at most batch_size rows and each but the last of exactly batch_size; the
\* batches in order are the source rows in read order; for N = 0 nothing is
\* inserted and the step succeeds.
C18_BatchedTransfer ==
    [](C18_AllRowsOnce) /\ [][C18_BatchesInOrder]_vars

\* C18 witness: the three rows of user were sent, the last batch not full
C18_Witness ==
    /\ pc = "record" /\ table = "user"
    /\ Len(txn["user"]) = 3
    /\ batchPos = batch_size * ((3 + batch_size - 1) \div batch_size)
    /\ batchPos > 3

-----------------------------------------------------------------------------
(* DuplicateResolver: claim C19 (specification SpecResolve) *)

\* the column lists of the table's unique indexes
UniqueIndexColumns(t) ==
    {indexes[t][i].columns : i \in {j \in 1..Len(indexes[t]) : indexes[t][j].unique # 0}}

\* the supplementary groups of the table with every column in the table and
\* a column set that is not the column set of a unique index
SupplementaryGroups(t) ==
    {g \in Range(common_grafana_unique(t)) :
        /\ \A i \in 1..Len(g) : HasColumn(t, g[i])
        /\ \A cols \in UniqueIndexColumns(t) : Range(cols) # Range(g)}

\* C19: the constraint groups checked for a table are the column sets of its
\* unique indexes plus its supplementary groups whose columns all exist and
\* that no index covers, in both entry points.
C19_GroupsChecked ==
    (pc = "standalone" /\ rpc # "idle") =>
        {unique_indexes[i].columns : i \in 1..Len(unique_indexes)}
            = UniqueIndexColumns(table) \cup SupplementaryGroups(table)

-----------------------------------------------------------------------------
(* The status map of the HTTP entry point: several runs and readers        *)
(* (specification SpecStatus).  FastAPI runs each background task in a     *)
(* worker thread; the steps below are the task's writes to its entry.      *)

\* the entry written to through another run's key
EntryKeyOfFirstTask(migration_id) == task[1].migration_id

\* `status = migration_status[migration_id]` (line 86): the entry a task
\* with parameter migration_id holds
EntryKey(migration_id) == migration_id

\* POST /migrate: a fresh uuid4, the pending entry, the task queued
start_migration ==
    /\ pc = "status"
    /\ Len(task) < MaxTasks
    /\ \E id \in RunIds \ {task[k].migration_id : k \in 1..Len(task)} :
         /\ migration_status' = [migration_status EXCEPT ![id] =
                [status |-> "pending", progress |-> 0, logs |-> <<>>]]
         /\ task' = Append(task, [migration_id |-> id, pc |-> "queued"])
         /\ writer' = id
    /\ UNCHANGED <<inputVars, caught, srcVars, resVars, runVars, tgtVars, ddlVars,
                   typeVars, response>>

\* run_migration_task lines 86-87: status["status"] = "migrating"
TaskBegin(k) ==
    /\ task[k].pc = "queued"
    /\ migration_status' = [migration_status EXCEPT
            ![EntryKey(task[k].migration_id)].status = "migrating"]
    /\ task' = [task EXCEPT ![k].pc = "running"]
    /\ writer' = task[k].migration_id

\* lines 191-192: status["progress"] and the log line of a migrated table
TaskProgress(k) ==
    /\ task[k].pc = "running"
    /\ migration_status' = [migration_status EXCEPT
            ![EntryKey(task[k].migration_id)] =
                [@ EXCEPT !.progress = 100,
                          !.logs = Append(@, [by |-> task[k].migration_id,
                                              kind |-> "migrated"])]]
    /\ task' = [task EXCEPT ![k].pc = "migrated"]
    /\ writer' = task[k].migration_id

\* lines 213-214: status completed and the closing log line
TaskCompletes(k) ==
    /\ task[k].pc = "migrated"
    /\ migration_status' = [migration_status EXCEPT
            ![EntryKey(task[k].migration_id)] =
                [@ EXCEPT !.status = "completed",
                          !.logs = Append(@, [by |-> task[k].migration_id,
                                              kind |-> "finished"])]]
    /\ task' = [task EXCEPT ![k].pc = "ended"]
    /\ writer' = task[k].migration_id

\* lines 216-219: status failed and the critical log line
TaskFails(k) ==
    /\ task[k].pc \in {"running", "migrated"}
    /\ migration_status' = [migration_status EXCEPT
            ![EntryKey(task[k].migration_id)] =
                [@ EXCEPT !.status = ExceptStatus,
                          !.logs = Append(@, [by |-> task[k].migration_id,
                                              kind |-> "critical"])]]
    /\ task' = [task EXCEPT ![k].pc = "ended"]
    /\ writer' = task[k].migration_id

\* one write of one of the running tasks
TaskStep ==
    /\ pc = "status"
    /\ \E k \in 1..Len(task) :
         TaskBegin(k) \/ TaskProgress(k) \/ TaskCompletes(k) \/ TaskFails(k)
    /\ UNCHANGED <<inputVars, caught, srcVars, resVars, runVars, tgtVars, ddlVars,
                   typeVars, response>>

\* GET /status/{migration_id}
get_migration_status ==
    /\ pc = "status"
    /\ \E id \in RunIds :
         response' = [id |-> id, body |-> migration_status[id]]
    /\ writer' = 0
    /\ UNCHANGED <<inputVars, caught, srcVars, resVars, runVars, tgtVars, ddlVars,
                   typeVars, migration_status, task>>

InitStatus ==
    /\ entry = "api"
    /\ options = [resolve_duplicates |-> FALSE, duplicate_strategy |-> "remove",
                  include_data |-> TRUE]
    /\ tables = <<"user">>
    /\ schema = [t \in {"user"} |-> <<"login", "email">>]
    /\ indexes = [t \in {"user"} |-> <<>>]
    /\ src = [t \in {"user"} |-> {}]
    /\ src_disk = src
    /\ src0 = src
    /\ pc = "status"
    /\ RunIdle
    /\ PartsIdle

NextStatus ==
    \/ start_migration
    \/ TaskStep
    \/ get_migration_status

SpecStatus == InitStatus /\ [][NextStatus]_vars

-----------------------------------------------------------------------------
(* The status map: claim C20 (specification SpecStatus) *)

C20_OnlyOwnerWrites ==
    \A id \in RunIds :
        migration_status'[id] # migration_status[id] => writer' = id

C20_ReadIsOwnEntry ==
    \/ response.body = NotFound
    \/ /\ \E k \in 1..Len(task) : task[k].migration_id = response.id
       /\ \A i \in 1..Len(response.body.logs) :
             response.body.logs[i].by = response.id

\* C20: with several runs and readers interleaved, every change of an entry
\* of the status map is made by the run the entry belongs to, and a status
\* read returns not_found or the entry of the requested run.
C20_EntriesWrittenByOwner ==
    [](C20_ReadIsOwnEntry) /\ [][C20_OnlyOwnerWrites]_vars

\* C20 witness: two runs have written their entries and a reader got the
\* entry of the second while the first was still running
C20_Witness ==
    /\ Len(task) = 2
    /\ task[1].pc = "migrated" /\ task[2].pc = "ended"
    /\ response.id = task[2].migration_id
    /\ response.body = migration_status[task[2].migration_id]
    /\ response.body.status = "completed"

-----------------------------------------------------------------------------
(* The report of Migrator.run: claim C21 (specification Spec) *)

\* C21: in the report written at the end of a run of Migrator.run (first
\* run, no row added by hand), a table has status success only if the target
\* holds its schema and its rows committed.
C21_SuccessOnlyIfCommitted ==
    (entry = "cli" /\ reported /\ RunEnded /\ runNo = 1 /\ ~tampered) =>
        \A t \in Range(tables) :
            report_tables[t].status = "success" => Migrated(t)

====
